---- MODULE Spec2Model ----
(***************************************************************************)
(* Model of pyBGP's per-peer session (pybgp/bgp/server.py, class BGP) and  *)
(* of the parts of the message codec it uses.  Octet strings are sequences *)
(* of integers 0..255, 1-indexed (Python offset k is index k+1).           *)
(***************************************************************************)
EXTENDS Integers, Sequences, FiniteSets, TLC

(***************************************************************************)
(* Bounds of the exploration                                               *)
(***************************************************************************)
MaxMsgs == 2      \* messages the peer sends on one connection
MaxTicks == 3     \* time-advance steps on one connection

(***************************************************************************)
(* Program constants                                                       *)
(***************************************************************************)
HEADER_LEN == 19
MAX_LEN == 4096
OPEN == 1
UPDATE == 2
NOTIFICATION == 3
KEEPALIVE == 4
OPEN_MIN_LEN == 29
NOTIFICATION_MIN_LEN == 21
UPDATE_MIN_LEN == 23
INITIAL_HOLD == 4 * 60
KEEPALIVE_INTERVAL == 1
HOLD_TIMER_EXPIRED_CODE == 4
asn == 65100
router_id == 167772162          \* 0x0A000002

IDLE == "IDLE"
ACTIVE == "ACTIVE"
OPENSENT == "OPENSENT"
OPENCONFIRM == "OPENCONFIRM"
ESTABLISHED == "ESTABLISHED"

(***************************************************************************)
(* Inputs: configured hold times, and what the peer may put on the wire    *)
(***************************************************************************)
CfgHolds == {0, 3, 9}
PeerAS == 65000
PeerId == 167772161             \* 0x0A000001
PeerHolds == {0, 2}
ChunkSizes == {19}

(***************************************************************************)
(* Octet helpers (struct.pack / struct.unpack, network byte order)         *)
(***************************************************************************)
\* a 16-bit field in host order of a little-endian machine: '<H' instead of '!H'
U16LittleEndian(n) == << n % 256, (n \div 256) % 256 >>

U16(n) == << (n \div 256) % 256, n % 256 >>
U32(n) == << (n \div 16777216) % 256, (n \div 65536) % 256, (n \div 256) % 256, n % 256 >>
GetU16(b, i) == b[i] * 256 + b[i + 1]
GetU32(b, i) == b[i] * 16777216 + b[i + 1] * 65536 + b[i + 2] * 256 + b[i + 3]
Marker == [i \in 1..16 |-> 255]

\* Python slices s[:n] and s[n:]
Take(s, n) == SubSeq(s, 1, IF n < Len(s) THEN n ELSE Len(s))
Drop(s, n) == SubSeq(s, (IF n < Len(s) THEN n ELSE Len(s)) + 1, Len(s))

Min(a, b) == IF a < b THEN a ELSE b

\* Message.pack: marker, 2-octet length, 1-octet type
HeaderPack(length, type) == Marker \o U16(length) \o << type >>

\* Message.header_unpack: (length, type) of a 19-octet header
header_unpack(h) == [length |-> GetU16(h, 17), type |-> h[19]]

\* Open.pack (no capabilities): 29 octets
OpenPack(my_as, hold, rid) ==
    HeaderPack(OPEN_MIN_LEN, OPEN) \o << 4 >> \o U16(my_as) \o U16(hold) \o U32(rid) \o << 0 >>

\* Open.unpack: cls(asn, hold_time, router_id); __init__ sets version to 4
OpenUnpack(msg) ==
    [version |-> 4, asn |-> GetU16(msg, 21), hold_time |-> GetU16(msg, 23),
     router_id |-> GetU32(msg, 25), capabilities |-> << >>]

\* KeepAlive().pack()
KeepAlivePack == HeaderPack(HEADER_LEN, KEEPALIVE)

\* Notification.pack
NotificationPack(code, subcode) ==
    HeaderPack(NOTIFICATION_MIN_LEN, NOTIFICATION) \o << code, subcode >>

\* Update().pack() with no routes and no attributes
UpdatePackEmpty == HeaderPack(UPDATE_MIN_LEN, UPDATE) \o U16(0) \o U16(0)

(***************************************************************************)
(* What the peer may send: OPENs built as Open.pack builds them (one with  *)
(* the version octet overwritten, one carrying the local AS), KEEPALIVE,   *)
(* an empty UPDATE and a Cease NOTIFICATION.                               *)
(***************************************************************************)
BadVersionOpen == [OpenPack(PeerAS, 9, PeerId) EXCEPT ![20] = 5]
PeerMsgs ==
    {OpenPack(PeerAS, h, PeerId) : h \in PeerHolds}
    \cup {BadVersionOpen, OpenPack(asn, 300, PeerId)}
    \cup {KeepAlivePack, UpdatePackEmpty, NotificationPack(6, 0)}

\* Headers a receiver has to reject: a type that is none of the four, a length
\* of 0, and a length above the maximum followed by more octets than two maximal
\* messages; and a KEEPALIVE
UnknownTypeMsg == HeaderPack(HEADER_LEN, 5)
ZeroLengthMsg == HeaderPack(0, OPEN)
OversizeMsg == HeaderPack(65535, UPDATE) \o [i \in 1..(2 * MAX_LEN + 8) |-> 0]
RawMsgs == {KeepAlivePack, UnknownTypeMsg, ZeroLengthMsg, OversizeMsg}

(***************************************************************************)
(* State                                                                   *)
(***************************************************************************)
VARIABLES
    state,            \* self.state
    status,           \* self.status: "None", "internal", "external"
    buffer,           \* self.buffer
    hold_time,        \* self.hold_time
    hold_timer,       \* self.hold_timer: the reactor's DelayedCall
    keepalive_timer,  \* self.keepalive_timer: the LoopingCall
    transport,        \* "none", "connected", "disconnecting", "lost"
    out,              \* what was handed to transport.write, in order
    wire,             \* octets the peer has sent and the transport not yet delivered
    sent,             \* history: the messages the peer sent, in order
    dispatched,       \* history: the frames handed to the handle_* methods, each with
                      \* the time, state, hold_time and hold timer it found
    cfg_hold_time,    \* history: the hold_time given to __init__
    hold_fired,       \* history: [at, state] of each hold_timer_expired call
    now,              \* reactor clock, in seconds
    ticks,            \* number of time-advance steps taken
    arg,              \* codec runs: the message or octets handed to the codec
    res               \* codec runs: what the codec returned for arg

vars == << state, status, buffer, hold_time, hold_timer, keepalive_timer, transport,
           out, wire, sent, dispatched, cfg_hold_time, hold_fired,
           now, ticks, arg, res >>

\* what the codec variables hold while no codec operation runs
NoCall == [op |-> "none"]

\* The session fields the handlers read and write, as one record
Session ==
    [state |-> state, status |-> status, hold_time |-> hold_time,
     hold_timer |-> hold_timer, keepalive_timer |-> keepalive_timer,
     transport |-> transport, out |-> out]

SetSession(s) ==
    /\ state' = s.state
    /\ status' = s.status
    /\ hold_time' = s.hold_time
    /\ hold_timer' = s.hold_timer
    /\ keepalive_timer' = s.keepalive_timer
    /\ transport' = s.transport
    /\ out' = s.out

NoTimer == [st |-> "none", left |-> 0]
Pending(secs) == [st |-> "pending", left |-> secs]
Stopped == [running |-> FALSE, interval |-> 0, left |-> 0]

\* BGP.__init__
SessionInit ==
    /\ state = ACTIVE
    /\ status = "None"
    /\ buffer = << >>
    /\ cfg_hold_time \in CfgHolds
    /\ hold_time = cfg_hold_time
    /\ keepalive_timer = Stopped
    /\ hold_timer = NoTimer
    /\ transport = "none"
    /\ out = << >>
    /\ wire = << >>
    /\ sent = << >>
    /\ dispatched = << >>
    /\ hold_fired = << >>
    /\ now = 0
    /\ ticks = 0

Init ==
    /\ SessionInit
    /\ arg = NoCall
    /\ res = NoCall

\* BGP.send: transport.write(msg.pack()); the entry keeps the message's fields,
\* the time of the write and the transport's condition at that time
send(s, type, body, t) ==
    [s EXCEPT !.out = Append(@, [type |-> type, body |-> body, at |-> t,
                                 tr |-> s.transport])]

\* BGP.open
open(s, t) == send(s, OPEN, << 4, asn, s.hold_time, router_id >>, t)

\* a keepalive that writes an OPEN
keepaliveSendsOpen(s, t) == open(s, t)

\* BGP.keepalive
keepalive(s, t) == send(s, KEEPALIVE, << >>, t)

\* transport.loseConnection(): stops reading, closes once the writes are flushed
loseConnection(s) ==
    [s EXCEPT !.transport = IF @ = "connected" THEN "disconnecting" ELSE @]

\* An exception leaving dataReceived: the reactor logs it and drops the connection
Raise(s) == [s EXCEPT !.transport = "lost"]

\* connectionMade without the callLater that arms the hold timer
connectionMadeNoHoldTimer(s, t) ==
    IF s.state = ACTIVE THEN [open(s, t) EXCEPT !.state = OPENSENT] ELSE s

\* BGP.connectionMade
connectionMade(s, t) ==
    IF s.state = ACTIVE
    THEN [open(s, t) EXCEPT !.hold_timer = Pending(INITIAL_HOLD), !.state = OPENSENT]
    ELSE s

\* keepalive_timer.start(1.0): LoopingCall.start runs the call at once (now=True)
\* and then every interval
keepalive_timer_start(s, interval, t) ==
    [keepalive(s, t) EXCEPT
        !.keepalive_timer = [running |-> TRUE, interval |-> interval, left |-> interval]]

\* hold_timer.reset(secs): DelayedCall.reset raises once the call fired or was cancelled
hold_timer_reset(s, secs) ==
    IF s.hold_timer.st = "pending"
    THEN [s EXCEPT !.hold_timer = Pending(secs)]
    ELSE Raise(s)

\* the comparison of the negotiation the other way round
NegotiateFlipped(mine, theirs) == IF mine < theirs THEN theirs ELSE mine

\* the negotiation in handle_open: if self.hold_time > msg.hold_time: ...
Negotiate(mine, theirs) == IF mine > theirs THEN theirs ELSE mine

\* the timers of handle_open without the reset of the hold timer
ArmTimersKeepaliveOnly(s, t) ==
    IF s.hold_time # 0 THEN keepalive_timer_start(s, KEEPALIVE_INTERVAL, t) ELSE s

\* the timers of handle_open without the test of the hold time
ArmTimersUnconditional(s, t) ==
    LET k == keepalive_timer_start(s, KEEPALIVE_INTERVAL, t) IN
    IF k.transport = "lost" THEN k ELSE hold_timer_reset(k, s.hold_time)

\* the timers in handle_open: if self.hold_time: start keepalive, reset hold
ArmTimers(s, t) ==
    IF s.hold_time # 0
    THEN LET k == keepalive_timer_start(s, KEEPALIVE_INTERVAL, t) IN
         IF k.transport = "lost" THEN k ELSE hold_timer_reset(k, s.hold_time)
    ELSE s

\* the peer classification a mutation of handle_open would make
ClassifyAlwaysExternal(local_as, received_as) == "external"

\* handle_open: internal if the AS numbers are equal, external otherwise
Classify(local_as, received_as) ==
    IF local_as = received_as THEN "internal" ELSE "external"

\* BGP.handle_open
handle_open(s, msg, t) ==
    LET m == OpenUnpack(msg) IN
    IF Len(msg) < OPEN_MIN_LEN THEN Raise(s)     \* struct.error in Open.unpack
    ELSE IF s.state = OPENSENT
    THEN LET s1 == keepalive(s, t)
             s2 == [s1 EXCEPT !.hold_time = Negotiate(s.hold_time, m.hold_time)]
             s3 == ArmTimers(s2, t)
         IN IF s3.transport = "lost" THEN s3
            ELSE [s3 EXCEPT !.status = Classify(asn, m.asn),
                            !.state = OPENCONFIRM]
    ELSE s

\* BGP.handle_update
handle_update(s, msg, t) ==
    IF Len(msg) < UPDATE_MIN_LEN THEN Raise(s)   \* struct.error in Update.unpack
    ELSE s

\* BGP.handle_keepalive
handle_keepalive(s, msg, t) == s

\* handle_notification without keepalive_timer.stop()
handle_notificationKeepaliveRunning(s, msg, t) ==
    IF s.hold_timer.st # "pending" THEN Raise(s)
    ELSE loseConnection([s EXCEPT !.hold_timer = [st |-> "cancelled", left |-> 0]])

\* BGP.handle_notification: hold_timer.cancel() raises once the call fired or was
\* cancelled, keepalive_timer.stop() asserts that the loop is running
handle_notification(s, msg, t) ==
    IF s.hold_timer.st # "pending" THEN Raise(s)
    ELSE LET s1 == [s EXCEPT !.hold_timer = [st |-> "cancelled", left |-> 0]] IN
         IF ~s1.keepalive_timer.running THEN Raise(s1)
         ELSE loseConnection([s1 EXCEPT !.keepalive_timer = Stopped])

\* hold_timer_expired that also puts the session in Idle
hold_timer_expiredToIdle(s, t) ==
    IF s.state = OPENSENT
    THEN [loseConnection(send(s, NOTIFICATION, << HOLD_TIMER_EXPIRED_CODE, 0 >>, t))
             EXCEPT !.state = IDLE]
    ELSE s

\* BGP.hold_timer_expired
hold_timer_expired(s, t) ==
    IF s.state = OPENSENT
    THEN loseConnection(send(s, NOTIFICATION, << HOLD_TIMER_EXPIRED_CODE, 0 >>, t))
    ELSE s

\* the dispatch at the end of dataReceived
Dispatch(s, type, msg, t) ==
    CASE type = OPEN -> handle_open(s, msg, t)
      [] type = UPDATE -> handle_update(s, msg, t)
      [] type = KEEPALIVE -> handle_keepalive(s, msg, t)
      [] type = NOTIFICATION -> handle_notification(s, msg, t)
      [] OTHER -> s

\* the framing that hands over the newest complete frame of the buffer first
FrameNewestFirst(buf) ==
    IF Len(buf) < HEADER_LEN
    THEN [got |-> FALSE, msg |-> << >>, type |-> 0, rest |-> buf]
    ELSE LET h == header_unpack(Take(buf, HEADER_LEN)) IN
         IF Len(buf) < h.length
         THEN [got |-> FALSE, msg |-> << >>, type |-> 0, rest |-> buf]
         ELSE LET first == Take(buf, h.length)
                  rest == Drop(buf, h.length)
                  n == IF Len(rest) < HEADER_LEN THEN 0
                       ELSE header_unpack(Take(rest, HEADER_LEN)).length
              IN IF n >= HEADER_LEN /\ Len(rest) >= n
                 THEN [got |-> TRUE, msg |-> Take(rest, n),
                       type |-> header_unpack(Take(rest, HEADER_LEN)).type,
                       rest |-> first \o Drop(rest, n)]
                 ELSE [got |-> TRUE, msg |-> first, type |-> h.type, rest |-> rest]

\* the framing that hands a frame over and leaves it in the buffer
FrameNotRemoved(buf) ==
    IF Len(buf) < HEADER_LEN
    THEN [got |-> FALSE, msg |-> << >>, type |-> 0, rest |-> buf]
    ELSE LET h == header_unpack(Take(buf, HEADER_LEN)) IN
         IF Len(buf) < h.length
         THEN [got |-> FALSE, msg |-> << >>, type |-> 0, rest |-> buf]
         ELSE [got |-> TRUE, msg |-> Take(buf, h.length), type |-> h.type, rest |-> buf]

\* the framing in dataReceived, on the buffer after the append: the frame taken
\* (none when the header or the message is incomplete) and the buffer left
Frame(buf) ==
    IF Len(buf) < HEADER_LEN
    THEN [got |-> FALSE, msg |-> << >>, type |-> 0, rest |-> buf]
    ELSE LET h == header_unpack(Take(buf, HEADER_LEN)) IN
         IF Len(buf) < h.length
         THEN [got |-> FALSE, msg |-> << >>, type |-> 0, rest |-> buf]
         ELSE [got |-> TRUE, msg |-> Take(buf, h.length), type |-> h.type,
               rest |-> Drop(buf, h.length)]

(***************************************************************************)
(* Actions                                                                 *)
(***************************************************************************)
\* the transport reports the connection: Protocol.connectionMade
ConnectionMade ==
    /\ transport = "none"
    /\ SetSession(connectionMade([Session EXCEPT !.transport = "connected"], now))
    /\ UNCHANGED << buffer, wire, sent, dispatched, cfg_hold_time, hold_fired, now, ticks,
                    arg, res >>

\* the peer writes one more message, one of msgs, to its end of the connection
PeerSends(msgs) ==
    /\ transport = "connected"
    /\ Len(sent) < MaxMsgs
    /\ \E m \in msgs :
          /\ wire' = wire \o m
          /\ sent' = Append(sent, m)
    /\ UNCHANGED << state, status, buffer, hold_time, hold_timer, keepalive_timer,
                    transport, out, dispatched, cfg_hold_time, hold_fired, now, ticks,
                    arg, res >>

\* a peer that keeps to the message formats
PeerSend == PeerSends(PeerMsgs)

\* a peer that sends headers the receiver has to reject
PeerSendRaw == PeerSends(RawMsgs)

\* BGP.dataReceived on the next n octets of the stream
dataReceived(n) ==
    LET data == Take(wire, n)
        f == Frame(buffer \o data)
    IN /\ wire' = Drop(wire, n)
       /\ buffer' = f.rest
       /\ IF f.got
          THEN /\ dispatched' = Append(dispatched,
                      [msg |-> f.msg, type |-> f.type, at |-> now, state |-> state,
                       hold_time |-> hold_time, timer |-> hold_timer.st])
               /\ SetSession(Dispatch(Session, f.type, f.msg, now))
          ELSE UNCHANGED << dispatched, state, status, hold_time, hold_timer,
                            keepalive_timer, transport, out >>
       /\ UNCHANGED << sent, cfg_hold_time, hold_fired, now, ticks, arg, res >>

\* the transport delivers a chunk: a few octets, or all that is in flight
DataReceived ==
    /\ transport = "connected"
    /\ wire # << >>
    /\ \E n \in ChunkSizes \cup {Len(wire)} :
          /\ n <= Len(wire)
          /\ dataReceived(n)

\* the reactor's clock advances, by a second or up to the next timer, never past
\* a timer that is due
Due ==
    {hold_timer.left : x \in {1} \cap (IF hold_timer.st = "pending" THEN {1} ELSE {})}
    \cup {keepalive_timer.left : x \in {1} \cap (IF keepalive_timer.running THEN {1} ELSE {})}

Tick ==
    /\ transport # "none"
    /\ ticks < MaxTicks
    /\ \E d \in {1} \cup Due :
          /\ d >= 1
          /\ \A x \in Due : d <= x
          /\ now' = now + d
          /\ hold_timer' = IF hold_timer.st = "pending"
                           THEN [hold_timer EXCEPT !.left = @ - d] ELSE hold_timer
          /\ keepalive_timer' = IF keepalive_timer.running
                                THEN [keepalive_timer EXCEPT !.left = @ - d]
                                ELSE keepalive_timer
    /\ ticks' = ticks + 1
    /\ UNCHANGED << state, status, buffer, hold_time, transport, out, wire, sent,
                    dispatched, cfg_hold_time, hold_fired, arg, res >>

\* the reactor runs the DelayedCall: BGP.hold_timer_expired
HoldTimerFire ==
    /\ hold_timer.st = "pending"
    /\ hold_timer.left = 0
    /\ hold_fired' = Append(hold_fired, [at |-> now, state |-> state])
    /\ SetSession(hold_timer_expired(
           [Session EXCEPT !.hold_timer = [st |-> "called", left |-> 0]], now))
    /\ UNCHANGED << buffer, wire, sent, dispatched, cfg_hold_time, now, ticks, arg, res >>

\* the LoopingCall runs BGP.keepalive and schedules the next run
KeepaliveTimerFire ==
    /\ keepalive_timer.running
    /\ keepalive_timer.left = 0
    /\ SetSession(keepalive(
           [Session EXCEPT !.keepalive_timer.left = keepalive_timer.interval], now))
    /\ UNCHANGED << buffer, wire, sent, dispatched, cfg_hold_time, hold_fired, now, ticks,
                    arg, res >>

\* the transport reports the end of the connection: BGP.connectionLost does nothing
ConnectionLost ==
    /\ transport \in {"connected", "disconnecting"}
    /\ transport' = "lost"
    /\ UNCHANGED << state, status, buffer, hold_time, hold_timer, keepalive_timer, out,
                    wire, sent, dispatched, cfg_hold_time, hold_fired, now, ticks,
                    arg, res >>

Next ==
    \/ ConnectionMade
    \/ PeerSend
    \/ DataReceived
    \/ Tick
    \/ HoldTimerFire
    \/ KeepaliveTimerFire
    \/ ConnectionLost

Spec == Init /\ [][Next]_vars

\* The session fed with headers it has to reject, with the configuration of
\* BGPFactory.buildProtocol and no time passing
RawInit == Init /\ cfg_hold_time = 3

RawNext ==
    \/ ConnectionMade
    \/ PeerSendRaw
    \/ DataReceived
    \/ ConnectionLost

RawSpec == RawInit /\ [][RawNext]_vars

TypeOK ==
    /\ state \in {ACTIVE, OPENSENT, OPENCONFIRM}
    /\ transport \in {"none", "connected", "disconnecting", "lost"}

(***************************************************************************)
(* Vocabulary of the properties                                            *)
(***************************************************************************)
RECURSIVE Concat(_)
Concat(ms) == IF ms = << >> THEN << >> ELSE Head(ms) \o Concat(Tail(ms))

\* the octets the transport has delivered so far
Delivered == Take(Concat(sent), Len(Concat(sent)) - Len(wire))

\* framing a whole octet string: frame after frame until none is complete
RECURSIVE Frames(_)
Frames(buf) ==
    IF Frame(buf).got /\ Frame(buf).msg # << >>
    THEN << Frame(buf).msg >> \o Frames(Frame(buf).rest)
    ELSE << >>

DispatchedMsgs == [i \in DOMAIN dispatched |-> dispatched[i].msg]

\* fields of a received OPEN, as they are on the wire
WireVersion(msg) == msg[20]
WireHold(msg) == GetU16(msg, 23)
WireId(msg) == GetU32(msg, 25)

\* an OPEN that fails the validation of the OpenSent state
InvalidOpen(msg) ==
    \/ WireVersion(msg) # 4
    \/ WireHold(msg) \in {1, 2}
    \/ WireId(msg) \in {0, router_id}

\* a dispatch the state does not expect
Unexpected(d) ==
    \/ d.state = OPENSENT /\ d.type \in {UPDATE, KEEPALIVE}
    \/ d.state = OPENCONFIRM /\ d.type \in {OPEN, UPDATE}
    \/ d.state = ESTABLISHED /\ d.type = OPEN

\* this step handed a frame to a handler; the frame's entry is LastDispatched'
DispatchStep == Len(dispatched') = Len(dispatched) + 1
LastDispatched == dispatched[Len(dispatched)]

\* this step ran hold_timer_expired
HoldExpiryStep == Len(hold_fired') = Len(hold_fired) + 1

\* this step processed an OPEN in OpenSent
OpenStep ==
    /\ DispatchStep
    /\ LastDispatched'.type = OPEN
    /\ LastDispatched'.state = OPENSENT

\* the OPEN that was processed in OpenSent, once there is one
OpenSeen == {i \in DOMAIN dispatched : dispatched[i].type = OPEN /\ dispatched[i].state = OPENSENT}
TheOpen == dispatched[CHOOSE i \in OpenSeen : TRUE]

KeepalivesOut == {i \in DOMAIN out : out[i].type = KEEPALIVE}

(***************************************************************************)
(* C1: for every chunking of a valid stream, the frames handed to the      *)
(* handlers are the frames of the octets delivered so far; a chunk that    *)
(* completes several messages gets all of them dispatched.                 *)
(***************************************************************************)
C1_ChunkingIndependent == DispatchedMsgs = Frames(Delivered)

(***************************************************************************)
(* C2: a KEEPALIVE received in OpenConfirm moves the session to            *)
(* Established.                                                            *)
(***************************************************************************)
C2_KeepaliveEstablishes ==
    [][(DispatchStep /\ state = OPENCONFIRM /\ LastDispatched'.type = KEEPALIVE)
         => state' = ESTABLISHED]_vars

(***************************************************************************)
(* C3: once an error path was taken (invalid OPEN, hold-timer expiry,      *)
(* NOTIFICATION received, unexpected message) the session is in Idle and   *)
(* neither timer is armed.                                                 *)
(***************************************************************************)
ErrorPathTaken ==
    \/ hold_fired # << >>
    \/ \E i \in DOMAIN dispatched :
          \/ dispatched[i].type = NOTIFICATION
          \/ dispatched[i].type = OPEN /\ dispatched[i].state = OPENSENT
                /\ InvalidOpen(dispatched[i].msg)
          \/ Unexpected(dispatched[i])

C3_ErrorLeadsToIdle ==
    ErrorPathTaken =>
        /\ state = IDLE
        /\ hold_timer.st # "pending"
        /\ ~keepalive_timer.running

(***************************************************************************)
(* C4: an OPEN that fails validation in OpenSent is answered by an         *)
(* OpenError NOTIFICATION (code 2) and nothing else, the transport is      *)
(* closed, the session is in Idle and no timer was armed for it.           *)
(***************************************************************************)
C4_InvalidOpenRejected ==
    [][(OpenStep /\ InvalidOpen(LastDispatched'.msg)) =>
          /\ Len(out') = Len(out) + 1
          /\ out'[Len(out')].type = NOTIFICATION
          /\ out'[Len(out')].body[1] = 2
          /\ transport' # "connected"
          /\ state' = IDLE
          /\ ~keepalive_timer'.running]_vars

(***************************************************************************)
(* C5: after a valid OPEN was processed in OpenSent, hold_time is the      *)
(* minimum of the configured hold time and the hold time received.         *)
(***************************************************************************)
C5_NegotiatedIsMin ==
    (OpenSeen # {} /\ ~InvalidOpen(TheOpen.msg)) =>
        hold_time = Min(cfg_hold_time, WireHold(TheOpen.msg))

C5_Witness ==
    /\ OpenSeen # {}
    /\ ~InvalidOpen(TheOpen.msg)
    /\ state = OPENCONFIRM
    /\ WireHold(TheOpen.msg) = 0
    /\ cfg_hold_time = 9
    /\ hold_time = 0

(***************************************************************************)
(* C6: when the negotiated hold time is 0, neither the hold timer nor the  *)
(* keepalive timer is armed once the OPEN has been processed.              *)
(***************************************************************************)
C6_ZeroHoldNoTimers ==
    (state = OPENCONFIRM /\ hold_time = 0) =>
        /\ hold_timer.st # "pending"
        /\ ~keepalive_timer.running

(***************************************************************************)
(* C7: when the negotiated hold time h is positive, processing the OPEN    *)
(* starts the keepalive timer with period max(1, h / 3) and re-arms the    *)
(* hold timer to h.                                                        *)
(***************************************************************************)
Third(h) == IF h \div 3 < 1 THEN 1 ELSE h \div 3

C7_KeepaliveIsThird ==
    [][(OpenStep /\ hold_time' > 0) =>
          /\ keepalive_timer'.running
          /\ keepalive_timer'.interval = Third(hold_time')
          /\ hold_timer' = Pending(hold_time')]_vars

\* C7 as the code has it: when the negotiated hold time h is positive,
\* processing the OPEN starts the keepalive timer with a period of one second,
\* whatever h is, and re-arms the hold timer to h.
C7_KeepaliveEverySecond ==
    [][(OpenStep /\ hold_time' > 0) =>
          /\ keepalive_timer'.running
          /\ keepalive_timer'.interval = 1
          /\ hold_timer' = Pending(hold_time')]_vars

C7_Witness ==
    /\ OpenSeen # {}
    /\ ~InvalidOpen(TheOpen.msg)
    /\ hold_time = 9
    /\ WireHold(TheOpen.msg) = 300
    /\ keepalive_timer.running
    /\ keepalive_timer.interval = 1
    /\ hold_timer = Pending(9)

(***************************************************************************)
(* C8: any two KEEPALIVEs written on a session are at least one second     *)
(* apart.                                                                  *)
(***************************************************************************)
C8_KeepalivesOneSecondApart ==
    \A i, j \in KeepalivesOut : i < j => out[j].at - out[i].at >= 1

(***************************************************************************)
(* C9: after a KEEPALIVE or UPDATE received while the hold timer runs with *)
(* the negotiated hold time h, the hold timer does not expire within h     *)
(* seconds of the receipt (stated for sessions whose OPEN was valid).       *)
(***************************************************************************)
C9_HoldResetOnReceipt ==
    \A i \in DOMAIN dispatched : \A j \in DOMAIN hold_fired :
        (/\ OpenSeen # {}
         /\ ~InvalidOpen(TheOpen.msg)
         /\ dispatched[i].type \in {KEEPALIVE, UPDATE}
         /\ dispatched[i].state \in {OPENCONFIRM, ESTABLISHED}
         /\ dispatched[i].timer = "pending"
         /\ hold_fired[j].at >= dispatched[i].at)
        => hold_fired[j].at - dispatched[i].at >= dispatched[i].hold_time

(***************************************************************************)
(* C10: when the hold timer expires in OpenSent, OpenConfirm or            *)
(* Established, a HoldTimerExpired NOTIFICATION (4, 0) is written, the     *)
(* transport is closed and the session is in Idle.                         *)
(***************************************************************************)
C10_HoldExpiryNotifies ==
    [][(HoldExpiryStep /\ state \in {OPENSENT, OPENCONFIRM, ESTABLISHED}) =>
          /\ Len(out') = Len(out) + 1
          /\ out'[Len(out')].type = NOTIFICATION
          /\ out'[Len(out')].body = << 4, 0 >>
          /\ transport' # "connected"
          /\ state' = IDLE]_vars

(***************************************************************************)
(* C11: a NOTIFICATION received in OpenSent, OpenConfirm or Established    *)
(* closes the transport and moves the session to Idle, in OpenSent too,    *)
(* where the keepalive timer has not been started.                         *)
(***************************************************************************)
C11_NotificationCloses ==
    [][(DispatchStep /\ LastDispatched'.type = NOTIFICATION
          /\ state \in {OPENSENT, OPENCONFIRM, ESTABLISHED}) =>
          /\ transport' # "connected"
          /\ state' = IDLE]_vars

(***************************************************************************)
(* C12: when the transport reports the connection to a session in Active,  *)
(* exactly one OPEN is written, carrying the configured AS, hold time and  *)
(* router id, the hold timer is armed at 240 s and the state is OpenSent.  *)
(***************************************************************************)
ConnectionMadeStep == transport = "none" /\ transport' = "connected"

C12_ConnectionSendsOpen ==
    [][(ConnectionMadeStep /\ state = ACTIVE) =>
          /\ out' = Append(out, [type |-> OPEN,
                                 body |-> << 4, asn, cfg_hold_time, router_id >>,
                                 at |-> now, tr |-> "connected"])
          /\ Cardinality({i \in DOMAIN out' : out'[i].type = OPEN}) = 1
          /\ hold_timer' = Pending(240)
          /\ state' = OPENSENT]_vars

C12_Witness ==
    /\ state = OPENSENT
    /\ Len(out) = 1
    /\ out[1].type = OPEN
    /\ out[1].body = << 4, asn, cfg_hold_time, router_id >>
    /\ hold_timer = Pending(240)
    /\ cfg_hold_time = 9

(***************************************************************************)
(* C13: a message the current state does not expect is answered by an      *)
(* FSMError NOTIFICATION (code 5), the transport is closed and the session *)
(* is in Idle.                                                             *)
(***************************************************************************)
C13_UnexpectedIsFsmError ==
    [][(DispatchStep /\ Unexpected(LastDispatched')) =>
          /\ Len(out') = Len(out) + 1
          /\ out'[Len(out')].type = NOTIFICATION
          /\ out'[Len(out')].body[1] = 5
          /\ transport' # "connected"
          /\ state' = IDLE]_vars

(***************************************************************************)
(* C14: frames reach the handlers in the order of their octets in the      *)
(* stream, whatever the chunking: the frames dispatched so far are the     *)
(* first messages the peer wrote, in the order it wrote them, and they lie *)
(* within the octets delivered so far.                                     *)
(***************************************************************************)
IsPrefix(p, q) == Len(p) <= Len(q) /\ \A i \in DOMAIN p : p[i] = q[i]

C14_DispatchInStreamOrder ==
    /\ IsPrefix(DispatchedMsgs, sent)
    /\ Len(Concat(DispatchedMsgs)) <= Len(Delivered)

C14_Witness ==
    /\ Len(dispatched) = 2
    /\ dispatched[1].type = OPEN
    /\ dispatched[2].type = KEEPALIVE
    /\ dispatched[1].at = dispatched[2].at
    /\ Delivered = Concat(sent)

(***************************************************************************)
(* C15: a frame whose type octet is none of 1..4 is answered by a          *)
(* HeaderError NOTIFICATION with subcode BadMessageType (1, 3) and the     *)
(* session is closed; it is never dropped with the session left running.   *)
(***************************************************************************)
C15_UnknownTypeRejected ==
    [][(DispatchStep /\ LastDispatched'.type \notin {OPEN, UPDATE, NOTIFICATION, KEEPALIVE}) =>
          /\ Len(out') = Len(out) + 1
          /\ out'[Len(out')].type = NOTIFICATION
          /\ out'[Len(out')].body = << 1, 3 >>
          /\ transport' # "connected"]_vars

(***************************************************************************)
(* C16: a header that declares a length below 19 or above 4096 is answered *)
(* by BadMessageLength (1, 2) and the session is closed; no frame shorter  *)
(* than 19 octets is ever extracted and dispatched.                        *)
(***************************************************************************)
BadLengthBuffered ==
    /\ Len(buffer) >= HEADER_LEN
    /\ header_unpack(Take(buffer, HEADER_LEN)).length \notin HEADER_LEN..MAX_LEN

C16_BadLengthRejected ==
    /\ \A i \in DOMAIN dispatched : Len(dispatched[i].msg) >= HEADER_LEN
    /\ BadLengthBuffered =>
          /\ transport # "connected"
          /\ out # << >>
          /\ out[Len(out)].type = NOTIFICATION
          /\ out[Len(out)].body = << 1, 2 >>

(***************************************************************************)
(* C17: the receive buffer never holds more than 4096 octets plus one      *)
(* message in flight (itself at most 4096 octets), whatever the chunks and *)
(* whatever lengths the headers declare.                                   *)
(***************************************************************************)
C17_BufferBounded == Len(buffer) <= MAX_LEN + MAX_LEN

(***************************************************************************)
(* C24: an OPEN received in OpenSent whose version octet is not 4 is       *)
(* answered by an OpenError NOTIFICATION with subcode 1 (Unsupported       *)
(* Version Number) and is not accepted: the session does not go on to      *)
(* OpenConfirm.                                                            *)
(***************************************************************************)
C24_BadVersionRejected ==
    [][(OpenStep /\ WireVersion(LastDispatched'.msg) # 4) =>
          /\ Len(out') = Len(out) + 1
          /\ out'[Len(out')].type = NOTIFICATION
          /\ out'[Len(out')].body = << 2, 1 >>
          /\ state' # OPENCONFIRM]_vars

\* the AS number of a received OPEN, as it is on the wire
WireAs(msg) == GetU16(msg, 21)

NoOpenProcessed == \A i \in DOMAIN dispatched : dispatched[i].type # OPEN

(***************************************************************************)
(* C25: when a valid OPEN is processed in OpenSent, status becomes         *)
(* 'internal' if the AS number received equals the local AS and 'external' *)
(* otherwise; as long as no OPEN was processed, status is None.            *)
(***************************************************************************)
C25_PeerTypeByAs ==
    [][/\ (OpenStep /\ ~InvalidOpen(LastDispatched'.msg)) =>
             /\ status' \in {"internal", "external"}
             /\ status' = "internal" <=> WireAs(LastDispatched'.msg) = asn
       /\ NoOpenProcessed' => status' = "None"]_vars

C25_Witness ==
    /\ OpenSeen # {}
    /\ ~InvalidOpen(TheOpen.msg)
    /\ WireAs(TheOpen.msg) = asn
    /\ status = "internal"
    /\ state = OPENCONFIRM

(***************************************************************************)
(* The codec on message objects.  A message is a record with its kind and  *)
(* the fields its constructor stores.                                      *)
(***************************************************************************)
\* the constructors notification.py leaves bound to a name, and the error code
\* each passes to Notification.__init__; the second class FSMError statement
\* (code 6) rebinds the name of the first (code 5)
NotificationCtors == {"HeaderError", "OpenError", "UpdateError", "HoldTimerExpired", "FSMError"}

ErrorCode(ctor) ==
    CASE ctor = "HeaderError" -> 1
      [] ctor = "OpenError" -> 2
      [] ctor = "UpdateError" -> 3
      [] ctor = "HoldTimerExpired" -> 4
      [] ctor = "FSMError" -> 6

\* Python values whose type decides what struct.pack does with them
PyInt(n) == [type |-> "int", v |-> n]
PyTuple(octets) == [type |-> "tuple", v |-> octets]

\* number_octets with a division that truncates toward zero
number_octets_truncating(length) == IF length = 0 THEN 1 ELSE ((length - 1) \div 8) + 1

\* IPField.number_octets, with Python 2's floor division
number_octets(length) == ((length - 1) \div 8) + 1

\* IPField.__init__
IPField(length, prefix) ==
    [length |-> length, prefix |-> prefix, octects |-> number_octets(length)]

\* IPField.__len__
IPFieldLen(f) == f.octects + 1

\* struct.pack('!BI', length, prefix) raises struct.error unless both are
\* integers in range
IPFieldPackRaises(f) == f.prefix.type # "int" \/ f.length \notin 0..255

\* IPField.pack: struct.pack('!BI', length, prefix)[:1 + octets]
IPFieldPack(f) == Take(<< f.length >> \o U32(f.prefix.v), 1 + f.octects)

\* IPField.unpack: struct.unpack('!%ds' % number, packed[1:1+number]) raises
\* when the slice is shorter than number; the prefix it returns is the tuple
\* struct.unpack gives
IPFieldUnpackRaises(packed) == Len(packed) - 1 < number_octets(packed[1])

IPFieldUnpack(packed) ==
    IPField(packed[1], PyTuple(SubSeq(packed, 2, 1 + number_octets(packed[1]))))

\* sum(len(f) for f in fields) and the concatenation of the packed fields
RECURSIVE IPFieldsLen(_)
IPFieldsLen(fs) == IF fs = << >> THEN 0 ELSE IPFieldLen(Head(fs)) + IPFieldsLen(Tail(fs))

RECURSIVE IPFieldsPack(_)
IPFieldsPack(fs) == IF fs = << >> THEN << >> ELSE IPFieldPack(Head(fs)) \o IPFieldsPack(Tail(fs))

(***************************************************************************)
(* Path attributes (update/path_attribute.py)                              *)
(***************************************************************************)
OPTIONAL == 128
TRANSITIVE == 64
PARTIAL == 32
EXTEND_LENGTH == 16

ORIGIN == 1
ASPATH == 2
NEXTHOP == 3
MED == 4
LOCALPREF == 5
ATOMICAGGREGATE == 6
AGGREGATOR == 7

\* flags & bit, for a bit that is a power of two
HasFlag(flags, bit) == (flags \div bit) % 2 = 1

PyNone == [type |-> "None", v |-> 0]
PyStr(octets) == [type |-> "str", v |-> octets]

\* what a call gives: a value, or the exception that left it
Ok(x) == [raised |-> FALSE, exc |-> "", val |-> x]
Raised(e) == [raised |-> TRUE, exc |-> e, val |-> PyNone]

\* ASPath.ASPathSegment: __init__, __len__, pack
ASPathSegment(type, value) == [type |-> type, value |-> value]

SegmentLen(seg) == 2 + 2 * Len(seg.value)

RECURSIVE AsnsPack(_)
AsnsPack(asns) == IF asns = << >> THEN << >> ELSE U16(Head(asns)) \o AsnsPack(Tail(asns))

SegmentPack(seg) == << seg.type, Len(seg.value) >> \o AsnsPack(seg.value)

SegmentPackRaises(seg) ==
    \/ seg.type \notin 0..255
    \/ Len(seg.value) > 255
    \/ \E i \in DOMAIN seg.value : seg.value[i] \notin 0..65535

RECURSIVE SegmentsLen(_)
SegmentsLen(segs) == IF segs = << >> THEN 0 ELSE SegmentLen(Head(segs)) + SegmentsLen(Tail(segs))

RECURSIVE SegmentsPack(_)
SegmentsPack(segs) == IF segs = << >> THEN << >> ELSE SegmentPack(Head(segs)) \o SegmentsPack(Tail(segs))

\* the constructors of the seven attribute classes; length is what the
\* length() closure returns
Origin(value) ==
    [cls |-> "Origin", flags |-> TRANSITIVE, type_code |-> ORIGIN, length |-> 1, value |-> value]

ASPath(value) ==
    [cls |-> "ASPath", flags |-> TRANSITIVE, type_code |-> ASPATH,
     length |-> SegmentsLen(value), value |-> value]

NextHop(value) ==
    [cls |-> "NextHop", flags |-> TRANSITIVE, type_code |-> NEXTHOP, length |-> 4, value |-> value]

Med(value) ==
    [cls |-> "MED", flags |-> OPTIONAL, type_code |-> MED, length |-> 4, value |-> value]

LocalPref(value) ==
    [cls |-> "LocalPref", flags |-> TRANSITIVE, type_code |-> LOCALPREF, length |-> 4, value |-> value]

AtomicAggregate ==
    [cls |-> "AtomicAggregate", flags |-> TRANSITIVE, type_code |-> ATOMICAGGREGATE,
     length |-> 0, value |-> PyNone]

\* self.value = self.asn << 32 + self.ip shifts asn by 32 + ip bits; the number
\* is kept as the operands of the shift
Aggregator(asn_, ip) ==
    [cls |-> "Aggregator", flags |-> OPTIONAL + TRANSITIVE, type_code |-> AGGREGATOR,
     length |-> 6, value |-> [shift |-> asn_, by |-> 32 + ip], asn |-> asn_, ip |-> ip]

\* len(path_attr) without the flags, type-code and length octets
AttrLenWithoutHeader(a) == a.length

\* PathAttribute.__len__
AttrLen(a) == 2 + (IF HasFlag(a.flags, EXTEND_LENGTH) THEN 2 ELSE 1) + a.length

\* _value_pack of the class: PathAttribute's by length, ASPath's, Aggregator's
ValuePack(a) ==
    CASE a.cls = "ASPath" -> SegmentsPack(a.value)
      [] a.cls = "Aggregator" -> U16(a.asn) \o U32(a.ip)
      [] OTHER -> CASE a.length = 0 -> << >>
                    [] a.length = 1 -> << a.value.v >>
                    [] a.length = 4 -> U32(a.value.v)

\* struct.error where a packed number is no integer or does not fit its field
ValuePackRaises(a) ==
    CASE a.cls = "ASPath" -> \E i \in DOMAIN a.value : SegmentPackRaises(a.value[i])
      [] a.cls = "Aggregator" -> a.asn \notin 0..65535 \/ a.ip < 0
      [] OTHER -> CASE a.length = 0 -> FALSE
                    [] a.length = 1 -> a.value.type # "int" \/ a.value.v \notin 0..255
                    [] a.length = 4 -> a.value.type # "int" \/ a.value.v < 0

AttrPackRaises(a) ==
    \/ ~HasFlag(a.flags, EXTEND_LENGTH) /\ a.length > 255
    \/ ValuePackRaises(a)

\* PathAttribute.pack
AttrPack(a) ==
    << a.flags, a.type_code >>
        \o (IF HasFlag(a.flags, EXTEND_LENGTH) THEN U16(a.length) ELSE << a.length >>)
        \o ValuePack(a)

\* PathAttribute.header_unpack
AttrHeaderRaises(p) ==
    \/ Len(p) < 2
    \/ Len(p) < (IF HasFlag(p[1], EXTEND_LENGTH) THEN 4 ELSE 3)

AttrHeader(p) ==
    [flags |-> p[1], type_code |-> p[2],
     length |-> IF HasFlag(p[1], EXTEND_LENGTH) THEN GetU16(p, 3) ELSE p[3],
     header_length |-> 2 + (IF HasFlag(p[1], EXTEND_LENGTH) THEN 2 ELSE 1)]

\* path_attr[header_length:header_length+value_length]
AttrValueOctets(p) ==
    LET h == AttrHeader(p) IN Take(Drop(p, h.header_length), h.length)

\* struct.unpack('!B' / '!H' / '!I', value)[0]
RECURSIVE BigEndian(_)
BigEndian(octets) ==
    IF octets = << >> THEN 0
    ELSE BigEndian(SubSeq(octets, 1, Len(octets) - 1)) * 256 + octets[Len(octets)]

\* ASPath.value_unpack: ASPathSegment.unpack segment after segment
RECURSIVE SegmentsUnpack(_)
SegmentsUnpack(value) ==
    IF value = << >> THEN Ok(<< >>)
    ELSE IF Len(value) < 2 \/ Len(value) - 2 < 2 * value[2] THEN Raised("struct.error")
    ELSE LET n == value[2]
             seg == ASPathSegment(value[1],
                        [i \in 1..n |-> GetU16(value, 1 + 2 * i)])
             rest == SegmentsUnpack(Drop(value, SegmentLen(seg)))
         IN IF rest.raised THEN rest ELSE Ok(<< seg >> \o rest.val)

\* PathAttribute.value_unpack followed by cls(*value), for the classes whose
\* constructor takes one value
ScalarUnpack(cls, value) ==
    LET v == IF Len(value) \in {1, 2, 4} THEN PyInt(BigEndian(value)) ELSE PyStr(value) IN
    IF value = << >> THEN Raised("TypeError")
    ELSE Ok(CASE cls = "Origin" -> Origin(v)
              [] cls = "NextHop" -> NextHop(v)
              [] cls = "MED" -> Med(v)
              [] cls = "LocalPref" -> LocalPref(v))

\* cls.unpack(path_attr): header_unpack, value_unpack of the class, cls(*value)
AttrUnpack(cls, p) ==
    IF AttrHeaderRaises(p) THEN Raised("struct.error")
    ELSE LET value == AttrValueOctets(p) IN
         CASE cls = "ASPath" ->
                LET segs == SegmentsUnpack(value) IN
                IF segs.raised THEN segs ELSE Ok(ASPath(segs.val))
           [] cls = "Aggregator" ->
                IF Len(value) # 6 THEN Raised("struct.error")
                ELSE Ok(Aggregator(GetU16(value, 1), GetU32(value, 3)))
           [] cls = "AtomicAggregate" ->
                IF value = << >> THEN Ok(AtomicAggregate) ELSE Raised("TypeError")
           [] OTHER -> ScalarUnpack(cls, value)

\* create with the branches of MED and LOCALPREF exchanged
ClassOfSwapped(type_code) ==
    CASE type_code = ORIGIN -> "Origin"
      [] type_code = ASPATH -> "ASPath"
      [] type_code = NEXTHOP -> "NextHop"
      [] type_code = MED -> "LocalPref"
      [] type_code = LOCALPREF -> "MED"
      [] type_code = ATOMICAGGREGATE -> "AtomicAggregate"
      [] type_code = AGGREGATOR -> "Aggregator"
      [] OTHER -> "unknown"

\* the class PathAttribute.create picks for a type code
ClassOf(type_code) ==
    CASE type_code = ORIGIN -> "Origin"
      [] type_code = ASPATH -> "ASPath"
      [] type_code = NEXTHOP -> "NextHop"
      [] type_code = MED -> "MED"
      [] type_code = LOCALPREF -> "LocalPref"
      [] type_code = ATOMICAGGREGATE -> "AtomicAggregate"
      [] type_code = AGGREGATOR -> "Aggregator"
      [] OTHER -> "unknown"

\* PathAttribute.create
create(p) ==
    IF AttrHeaderRaises(p) THEN Raised("struct.error")
    ELSE IF ClassOf(AttrHeader(p).type_code) = "unknown" THEN Raised("Exception")
    ELSE AttrUnpack(ClassOf(AttrHeader(p).type_code), p)

RECURSIVE AttrsLen(_)
AttrsLen(attrs) == IF attrs = << >> THEN 0 ELSE AttrLen(Head(attrs)) + AttrsLen(Tail(attrs))

RECURSIVE AttrsPack(_)
AttrsPack(attrs) == IF attrs = << >> THEN << >> ELSE AttrPack(Head(attrs)) \o AttrsPack(Tail(attrs))

\* Open.__len__, Update.__len__, Notification.__len__, and Message.__len__ for
\* KEEPALIVE
MsgLen(m) ==
    CASE m.kind = "open" -> OPEN_MIN_LEN + Len(m.capabilities)
      [] m.kind = "update" ->
            UPDATE_MIN_LEN + IPFieldsLen(m.wd_routes) + AttrsLen(m.path_attr)
                + IPFieldsLen(m.nlris)
      [] m.kind = "notification" -> NOTIFICATION_MIN_LEN + Len(m.data)
      [] m.kind = "keepalive" -> HEADER_LEN

MsgType(m) ==
    CASE m.kind = "open" -> OPEN
      [] m.kind = "update" -> UPDATE
      [] m.kind = "notification" -> NOTIFICATION
      [] m.kind = "keepalive" -> KEEPALIVE

\* Open.pack, Update.pack, Notification.pack, KeepAlive.pack:
\* the header carries len(self)
MsgPack(m) ==
    HeaderPack(MsgLen(m), MsgType(m)) \o
    CASE m.kind = "open" ->
            << 4 >> \o U16(m.asn) \o U16(m.hold_time) \o U32(m.router_id)
                \o << Len(m.capabilities) >>
      [] m.kind = "update" ->
            U16(IPFieldsLen(m.wd_routes)) \o IPFieldsPack(m.wd_routes)
                \o U16(AttrsLen(m.path_attr)) \o AttrsPack(m.path_attr)
                \o IPFieldsPack(m.nlris)
      [] m.kind = "notification" -> << ErrorCode(m.ctor), m.subcode >> \o m.data
      [] m.kind = "keepalive" -> << >>

\* Update.pack raises where the pack of a prefix or of an attribute does
UpdatePackRaises(m) ==
    \/ \E i \in DOMAIN m.wd_routes : IPFieldPackRaises(m.wd_routes[i])
    \/ \E i \in DOMAIN m.path_attr : AttrPackRaises(m.path_attr[i])
    \/ \E i \in DOMAIN m.nlris : IPFieldPackRaises(m.nlris[i])

\* the loops of Update.unpack over prefixes and over path attributes: decode at
\* the front, drop len(decoded) octets, until nothing is left
RECURSIVE IPFieldsUnpack(_)
IPFieldsUnpack(packed) ==
    IF packed = << >> THEN Ok(<< >>)
    ELSE IF IPFieldUnpackRaises(packed) THEN Raised("struct.error")
    ELSE LET ipfield == IPFieldUnpack(packed)
             rest == IPFieldsUnpack(Drop(packed, IPFieldLen(ipfield)))
         IN IF rest.raised THEN rest ELSE Ok(<< ipfield >> \o rest.val)

RECURSIVE AttrsUnpack(_)
AttrsUnpack(pa_packed) ==
    IF pa_packed = << >> THEN Ok(<< >>)
    ELSE LET path_attr == create(pa_packed) IN
         IF path_attr.raised THEN path_attr
         ELSE LET rest == AttrsUnpack(Drop(pa_packed, AttrLen(path_attr.val)))
              IN IF rest.raised THEN rest ELSE Ok(<< path_attr.val >> \o rest.val)

\* Update.unpack
UpdateUnpack(msg) ==
    LET length == header_unpack(Take(msg, HEADER_LEN)).length
        b1 == Drop(msg, HEADER_LEN)
        wd_routes_length == GetU16(b1, 1)
        wd_routes == IPFieldsUnpack(Take(Drop(b1, 2), wd_routes_length))
        b2 == Drop(b1, 2 + wd_routes_length)
        path_attrs_length == GetU16(b2, 1)
        path_attrs == AttrsUnpack(Take(Drop(b2, 2), path_attrs_length))
        b3 == Drop(b2, 2 + path_attrs_length)
        nlris == IPFieldsUnpack(Take(b3, length))
    IN IF Len(b1) < 2 THEN Raised("struct.error")
       ELSE IF wd_routes.raised THEN wd_routes
       ELSE IF Len(b2) < 2 THEN Raised("struct.error")
       ELSE IF path_attrs.raised THEN path_attrs
       ELSE IF nlris.raised THEN nlris
       ELSE Ok([kind |-> "update", wd_routes |-> wd_routes.val,
                path_attr |-> path_attrs.val, nlris |-> nlris.val])

\* the messages the codec is run on
Routes == { << >>, << IPField(0, PyInt(0)) >>,
            << IPField(23, PyInt(167772416)), IPField(8, PyInt(167772160)) >> }
OpenInputs ==
    [kind : {"open"}, asn : {0, PeerAS, 65535}, hold_time : {0, 3, 300},
     router_id : {0, PeerId, 2147483647}, capabilities : {<< >>, << 1 >>, << 1, 2 >>}]
LongPath == << ASPathSegment(2, [i \in 1..127 |-> i]) >>
SegmentLists ==
    { << >>, << ASPathSegment(2, << 123, 2345 >>) >>,
      << ASPathSegment(2, << 10, 4525, 1823 >>), ASPathSegment(1, << 11, 2334, 1 >>) >>,
      LongPath }
AllAttrs ==
    << Origin(PyInt(1)), ASPath(<< ASPathSegment(2, << 123, 2345 >>) >>),
       NextHop(PyInt(168826643)), Med(PyInt(200)), LocalPref(PyInt(50)), AtomicAggregate,
       Aggregator(65100, 503316737) >>
AttrLists == { << >>, << Origin(PyInt(1)) >>, AllAttrs }
UpdateInputs == [kind : {"update"}, wd_routes : Routes, path_attr : AttrLists, nlris : Routes]

\* attribute objects, one set for each class
OriginInputs == {[kind |-> "attr", attr |-> Origin(PyInt(v))] : v \in 0..2}
ASPathInputs == {[kind |-> "attr", attr |-> ASPath(segs)] : segs \in SegmentLists}
NextHopInputs == {[kind |-> "attr", attr |-> NextHop(PyInt(v))] : v \in {0, PeerId, 2147483647}}
MedInputs == {[kind |-> "attr", attr |-> Med(PyInt(v))] : v \in {0, 150}}
LocalPrefInputs == {[kind |-> "attr", attr |-> LocalPref(PyInt(v))] : v \in {0, 150}}
AtomicAggregateInputs == {[kind |-> "attr", attr |-> AtomicAggregate]}
AggregatorInputs ==
    {[kind |-> "attr", attr |-> Aggregator(a, ip)] : a \in {1500, 65100}, ip \in {PeerId, 503316737}}

\* prefixes of every bit length an octet of 0..32 can name, and one beyond
PrefixBits == 0..33
IPFieldInputs ==
    {[kind |-> "ipfield", field |-> IPField(b, PyInt(p))] : b \in PrefixBits, p \in {0, 167772416}}

\* octets that follow a packed prefix in the buffer handed to IPField.unpack
Trailers == { << >>, << 8, 10 >> }

\* packed path attributes as they arrive: canonical, with EXTENDED_LENGTH set,
\* with a length that is not the canonical one, and with unknown type codes;
\* alone or followed by a NEXT_HOP
NextHopOctets == << 64, 3, 4, 10, 0, 0, 1 >>
AttrOctets ==
    { << 64, 1, 1, 0 >>, << 80, 1, 0, 1, 0 >>, << 64, 1, 2, 0, 1 >>,
      << 64, 8, 1, 0 >>, << 192, 8, 2, 1, 2 >>, << 128, 9, 1, 7 >>,
      << 64, 2, 6, 2, 2, 0, 123, 9, 41 >>, << 192, 7, 6, 253, 232, 10, 0, 0, 1 >>,
      << 64, 6, 0 >>, << 64, 2, 2, 2, 0 >> }
AttrBytesInputs ==
    {[kind |-> "attr_bytes", bytes |-> p \o q] : p \in AttrOctets, q \in {<< >>, NextHopOctets}}

\* an UPDATE buffer whose three fields fill the declared length exactly
UpdateOctets(wd, pa, nlri) ==
    HeaderPack(UPDATE_MIN_LEN + Len(wd) + Len(pa) + Len(nlri), UPDATE)
        \o U16(Len(wd)) \o wd \o U16(Len(pa)) \o pa \o nlri

\* canonical UPDATE buffers: known attributes with their canonical flags,
\* prefixes trimmed to their octets with zero trailing bits
CanonicalUpdates ==
    { UpdateOctets(<< >>, << >>, << >>),
      UpdateOctets(<< >>, << 64, 1, 1, 0 >> \o NextHopOctets, << >>),
      UpdateOctets(<< 24, 10, 0, 1 >>, << >>, << >>),
      UpdateOctets(<< 0 >>, << 64, 1, 1, 0 >> \o NextHopOctets, << 8, 10, 23, 10, 0, 2 >>) }

\* UPDATE buffers a decoder has to reject: a prefix of 33 bits, a prefix that
\* overshoots the withdrawn field, a path-attribute length with nothing behind
\* it, a withdrawn length larger than the message, attributes that are not in
\* canonical form or unknown
MalformedUpdates ==
    { UpdateOctets(<< 33, 10, 0, 0, 1, 128 >>, << >>, << >>),
      UpdateOctets(<< >>, << >>, << 40, 10, 0, 0, 1, 128 >>),
      UpdateOctets(<< 16, 10 >>, << >>, << >>),
      HeaderPack(UPDATE_MIN_LEN, UPDATE) \o << 0, 0, 0, 10 >>,
      HeaderPack(UPDATE_MIN_LEN, UPDATE) \o << 0, 100, 0, 0 >>,
      UpdateOctets(<< >>, << 80, 1, 0, 1, 0 >> \o NextHopOctets, << >>),
      UpdateOctets(<< >>, << 192, 8, 2, 1, 2 >>, << 8, 10 >>) }

UpdateBytesInputs ==
    {[kind |-> "update_bytes", bytes |-> b, canonical |-> TRUE] : b \in CanonicalUpdates}
    \cup {[kind |-> "update_bytes", bytes |-> b, canonical |-> FALSE] : b \in MalformedUpdates}
NotificationInputs ==
    [kind : {"notification"}, ctor : NotificationCtors, subcode : 0..6,
     data : {<< >>, << 4 >>, [i \in 1..(MAX_LEN - 20) |-> 0]}]
KeepAliveInputs == {[kind |-> "keepalive"]}

session_vars ==
    << state, status, buffer, hold_time, hold_timer, keepalive_timer, transport,
       out, wire, sent, dispatched, cfg_hold_time, hold_fired, now, ticks >>

\* Open.unpack as a call: the type check raises Exception, struct.unpack raises
\* on a message cut short
OpenUnpackCall(msg) ==
    IF header_unpack(Take(msg, HEADER_LEN)).type # OPEN THEN Raised("Exception")
    ELSE IF Len(msg) < OPEN_MIN_LEN THEN Raised("struct.error")
    ELSE Ok(OpenUnpack(msg))

\* received OPEN messages: without optional parameters, with the count Open.pack
\* writes for one capability, with a two-octet optional parameter, cut short,
\* and a KEEPALIVE in their place
OpenOctets ==
    { OpenPack(PeerAS, 3, PeerId),
      [OpenPack(PeerAS, 3, PeerId) EXCEPT ![18] = 30, ![29] = 1],
      [OpenPack(PeerAS, 3, PeerId) EXCEPT ![18] = 31, ![29] = 2] \o << 2, 0 >>,
      Take(OpenPack(PeerAS, 3, PeerId), OPEN_MIN_LEN - 1),
      KeepAlivePack }
OpenBytesInputs == {[kind |-> "open_bytes", bytes |-> b] : b \in OpenOctets}

\* a message, attribute or prefix object has been constructed, or octets have
\* arrived; the session is not involved
CodecInit ==
    /\ SessionInit
    /\ cfg_hold_time = 3
    /\ \/ arg \in OpenInputs
       \/ arg \in UpdateInputs
       \/ arg \in NotificationInputs
       \/ arg \in KeepAliveInputs
       \/ arg \in OriginInputs
       \/ arg \in ASPathInputs
       \/ arg \in NextHopInputs
       \/ arg \in MedInputs
       \/ arg \in LocalPrefInputs
       \/ arg \in AtomicAggregateInputs
       \/ arg \in AggregatorInputs
       \/ arg \in IPFieldInputs
       \/ arg \in AttrBytesInputs
       \/ arg \in UpdateBytesInputs
       \/ arg \in OpenBytesInputs
    /\ res = NoCall

\* M.pack() and len(M)
Pack ==
    /\ res.op = "none"
    /\ arg.kind \in {"open", "update", "notification", "keepalive"}
    /\ res' = [op |-> "pack", bytes |-> MsgPack(arg), len |-> MsgLen(arg)]
    /\ UNCHANGED << session_vars, arg >>

\* Open.unpack(M.pack())
UnpackOpen ==
    /\ res.op = "pack"
    /\ arg.kind = "open"
    /\ res' = [op |-> "unpack", bytes |-> res.bytes, msg |-> OpenUnpack(res.bytes)]
    /\ UNCHANGED << session_vars, arg >>

\* A.pack() and len(A) of a path attribute
PackAttr ==
    /\ res.op = "none"
    /\ arg.kind = "attr"
    /\ res' = [op |-> "pack_attr", raised |-> AttrPackRaises(arg.attr),
               bytes |-> IF AttrPackRaises(arg.attr) THEN << >> ELSE AttrPack(arg.attr),
               len |-> AttrLen(arg.attr)]
    /\ UNCHANGED << session_vars, arg >>

\* A.unpack(A.pack()) and PathAttribute.create(A.pack())
UnpackAttr ==
    /\ res.op = "pack_attr"
    /\ ~res.raised
    /\ res' = [op |-> "unpack_attr", bytes |-> res.bytes,
               unpacked |-> AttrUnpack(arg.attr.cls, res.bytes),
               created |-> create(res.bytes)]
    /\ UNCHANGED << session_vars, arg >>

\* F.pack() and len(F) of a prefix
PackIPField ==
    /\ res.op = "none"
    /\ arg.kind = "ipfield"
    /\ res' = [op |-> "pack_ipfield", bytes |-> IPFieldPack(arg.field),
               len |-> IPFieldLen(arg.field)]
    /\ UNCHANGED << session_vars, arg >>

\* one turn of the prefix loops of Update.unpack on the packed prefix and what
\* follows it: IPField.unpack, then len(ipfield) octets are dropped
UnpackIPField ==
    /\ res.op = "pack_ipfield"
    /\ \E trailer \in Trailers :
         LET packed == res.bytes \o trailer IN
         res' = [op |-> "unpack_ipfield", packed |-> packed,
                 raised |-> IPFieldUnpackRaises(packed),
                 field |-> IF IPFieldUnpackRaises(packed) THEN PyNone
                           ELSE IPFieldUnpack(packed),
                 consumed |-> IF IPFieldUnpackRaises(packed) THEN 0
                              ELSE IPFieldLen(IPFieldUnpack(packed))]
    /\ UNCHANGED << session_vars, arg >>

\* one turn of the path-attribute loop of Update.unpack: PathAttribute.create
\* on the octets left, then len(path_attr) octets are dropped
CreateAttr ==
    /\ res.op = "none"
    /\ arg.kind = "attr_bytes"
    /\ LET path_attr == create(arg.bytes) IN
       res' = [op |-> "create", raised |-> path_attr.raised, exc |-> path_attr.exc,
               attr |-> path_attr.val,
               rest |-> IF path_attr.raised THEN arg.bytes
                        ELSE Drop(arg.bytes, AttrLen(path_attr.val))]
    /\ UNCHANGED << session_vars, arg >>

\* Update.unpack(B)
UnpackUpdate ==
    /\ res.op = "none"
    /\ arg.kind = "update_bytes"
    /\ LET u == UpdateUnpack(arg.bytes) IN
       res' = [op |-> "unpack_update", raised |-> u.raised, exc |-> u.exc, msg |-> u.val]
    /\ UNCHANGED << session_vars, arg >>

\* Update.unpack(B).pack()
Repack ==
    /\ res.op = "unpack_update"
    /\ ~res.raised
    /\ res' = [op |-> "repack", raised |-> UpdatePackRaises(res.msg),
               bytes |-> IF UpdatePackRaises(res.msg) THEN << >> ELSE MsgPack(res.msg)]
    /\ UNCHANGED << session_vars, arg >>

\* Open.unpack(B) on received octets
UnpackOpenBytes ==
    /\ res.op = "none"
    /\ arg.kind = "open_bytes"
    /\ LET o == OpenUnpackCall(arg.bytes) IN
       res' = [op |-> "unpack_open", raised |-> o.raised, exc |-> o.exc, msg |-> o.val]
    /\ UNCHANGED << session_vars, arg >>

CodecNext ==
    \/ Pack
    \/ UnpackOpen
    \/ PackAttr
    \/ UnpackAttr
    \/ PackIPField
    \/ UnpackIPField
    \/ CreateAttr
    \/ UnpackUpdate
    \/ Repack
    \/ UnpackOpenBytes

CodecSpec == CodecInit /\ [][CodecNext]_vars

\* the error codes of RFC 4271, section 4.5, by the name the claim gives them
RfcCode(name) ==
    CASE name = "HeaderError" -> 1
      [] name = "OpenError" -> 2
      [] name = "UpdateError" -> 3
      [] name = "HoldTimerExpired" -> 4
      [] name = "FSMError" -> 5
      [] name = "Cease" -> 6

(***************************************************************************)
(* C18: a NOTIFICATION built by a named constructor carries that name's    *)
(* RFC error code in its first body octet and the subcode in the second;   *)
(* FSMError().pack() carries 5.                                            *)
(***************************************************************************)
C18_ConstructorsCarryRfcCode ==
    (res.op = "pack" /\ arg.kind = "notification") =>
        /\ res.bytes[20] = RfcCode(arg.ctor)
        /\ res.bytes[21] = arg.subcode

(***************************************************************************)
(* C19: for every message M the packed octets, len(M) and the length field *)
(* of the packed header agree, and lie between 19 and 4096.                *)
(***************************************************************************)
C19_PackedLengthAgrees ==
    res.op = "pack" =>
        /\ Len(res.bytes) = res.len
        /\ GetU16(res.bytes, 17) = res.len
        /\ res.len \in HEADER_LEN..MAX_LEN

(***************************************************************************)
(* C20: unpacking a packed OPEN gives back its version, AS number, hold    *)
(* time, router id and capabilities.                                       *)
(***************************************************************************)
C20_OpenRoundTrip ==
    res.op = "unpack" =>
        /\ res.msg.version = 4
        /\ res.msg.asn = arg.asn
        /\ res.msg.hold_time = arg.hold_time
        /\ res.msg.router_id = arg.router_id
        /\ res.msg.capabilities = arg.capabilities

(***************************************************************************)
(* C23: an OPEN without capabilities packs to exactly 29 octets: sixteen   *)
(* 0xFF, length 0x001D, type 1, version 4, my_as and hold_time as          *)
(* big-endian 16-bit fields, router_id as a big-endian 32-bit field, and   *)
(* an optional-parameter length of 0.                                      *)
(***************************************************************************)
C23_OpenEncoding ==
    (res.op = "pack" /\ arg.kind = "open" /\ arg.capabilities = << >>) =>
        LET b == res.bytes IN
        /\ Len(b) = 29
        /\ \A i \in 1..16 : b[i] = 255
        /\ << b[17], b[18], b[19], b[20] >> = << 0, 29, 1, 4 >>
        /\ \A i \in 21..29 : b[i] \in 0..255
        /\ b[21] * 256 + b[22] = arg.asn
        /\ b[23] * 256 + b[24] = arg.hold_time
        /\ ((b[25] * 256 + b[26]) * 256 + b[27]) * 256 + b[28] = arg.router_id
        /\ b[29] = 0

\* FF*16 001D 01 04 FDE8 0003 0A000001 00
C23_Witness ==
    /\ res.op = "pack"
    /\ arg.kind = "open"
    /\ arg.capabilities = << >>
    /\ res.bytes = [i \in 1..16 |-> 255] \o << 0, 29, 1, 4, 253, 232, 0, 3, 10, 0, 0, 1, 0 >>

\* two attribute objects of the same kind with equal fields
SameAttr(a, b) ==
    /\ a.cls = b.cls
    /\ a.flags = b.flags
    /\ a.type_code = b.type_code
    /\ a.length = b.length
    /\ IF a.cls = "Aggregator" THEN a.asn = b.asn /\ a.ip = b.ip ELSE a.value = b.value

C22_UpdateByteRoundTrip ==
    (arg.kind = "update_bytes" /\ arg.canonical) =>
        /\ res.op = "unpack_update" => ~res.raised
        /\ res.op = "repack" => ~res.raised /\ res.bytes = arg.bytes

\* the octets a prefix of b bits needs
Ceil8(b) == (b + 7) \div 8

(***************************************************************************)
(* C26: a prefix of b bits, b in 0..32, takes 1 + ceil(b/8) octets: that   *)
(* is what len(IPField) reports, what IPField.pack emits and what the      *)
(* decoder consumes; for b = 0 there is no prefix octet.                   *)
(***************************************************************************)
C26_PrefixOctets ==
    (arg.kind = "ipfield" /\ arg.field.length \in 0..32) =>
        /\ res.op = "pack_ipfield" =>
              /\ res.len = 1 + Ceil8(arg.field.length)
              /\ Len(res.bytes) = 1 + Ceil8(arg.field.length)
        /\ res.op = "unpack_ipfield" =>
              /\ ~res.raised
              /\ res.consumed = 1 + Ceil8(arg.field.length)
              /\ res.field.length = arg.field.length
              /\ Len(res.field.prefix.v) = Ceil8(arg.field.length)

C26_Witness ==
    /\ res.op = "unpack_ipfield"
    /\ arg.field.length = 0
    /\ res.packed = << 0, 8, 10 >>
    /\ res.consumed = 1
    /\ res.field.prefix.v = << >>

(***************************************************************************)
(* C27: Update.unpack never produces an IPField whose bit length exceeds   *)
(* 32 (such a prefix is rejected), and no IPField is packed to a size that *)
(* differs from its len().                                                 *)
(***************************************************************************)
C27_LongPrefixRejected ==
    /\ (res.op = "unpack_update" /\ ~res.raised) =>
          /\ \A i \in DOMAIN res.msg.wd_routes : res.msg.wd_routes[i].length <= 32
          /\ \A i \in DOMAIN res.msg.nlris : res.msg.nlris[i].length <= 32
    /\ res.op = "pack_ipfield" => Len(res.bytes) = res.len

\* the withdrawn and path-attribute lengths an UPDATE buffer declares lie
\* within the message length its header declares
DeclaredFit(b) ==
    /\ Len(b) >= UPDATE_MIN_LEN
    /\ UPDATE_MIN_LEN + GetU16(b, 20) <= Len(b)
    /\ UPDATE_MIN_LEN + GetU16(b, 20) + GetU16(b, 22 + GetU16(b, 20)) <= GetU16(b, 17)

(***************************************************************************)
(* C28: an UPDATE whose declared field lengths do not fit the message      *)
(* length is not decoded: Update.unpack ends with an error instead of an   *)
(* UPDATE object.                                                          *)
(***************************************************************************)
C28_FieldLengthsChecked ==
    (res.op = "unpack_update" /\ ~DeclaredFit(arg.bytes)) => res.raised

\* the octets an attribute takes on the wire: flags, type code, a length of one
\* or two octets by the EXTENDED_LENGTH flag received, and the value
WireSize(p) ==
    IF HasFlag(p[1], EXTEND_LENGTH) THEN 4 + GetU16(p, 3) ELSE 3 + p[3]

(***************************************************************************)
(* C29: after a path attribute is decoded the decoder has advanced by the  *)
(* attribute's size on the wire, so what is left starts with the first     *)
(* octet of the next attribute.                                            *)
(***************************************************************************)
C29_AdvanceByWireSize ==
    (res.op = "create" /\ ~res.raised) =>
        res.rest = Drop(arg.bytes, WireSize(arg.bytes))

(***************************************************************************)
(* C30: an attribute with an unknown type code is refused when its         *)
(* OPTIONAL flag is clear, and accepted with its octets kept as they are   *)
(* when the flag is set.                                                   *)
(***************************************************************************)
C30_UnknownTypeCode ==
    (res.op = "create" /\ arg.bytes[2] \notin ORIGIN..AGGREGATOR) =>
        IF HasFlag(arg.bytes[1], OPTIONAL)
        THEN /\ ~res.raised
             /\ res.attr.type_code = arg.bytes[2]
             /\ res.attr.value = PyStr(AttrValueOctets(arg.bytes))
             /\ res.rest = Drop(arg.bytes, WireSize(arg.bytes))
        ELSE res.raised

(***************************************************************************)
(* C31: a packed path attribute has the EXTENDED_LENGTH flag set exactly   *)
(* when its value is longer than 255 octets, and its length is written in  *)
(* two octets exactly then, in one octet otherwise.                        *)
(***************************************************************************)
C31_ExtendedLengthOnEncode ==
    res.op = "pack_attr" =>
        /\ ~res.raised
        /\ HasFlag(res.bytes[1], EXTEND_LENGTH) <=> arg.attr.length > 255
        /\ Len(res.bytes) = 2 + (IF arg.attr.length > 255 THEN 2 ELSE 1) + arg.attr.length
        /\ arg.attr.length = IF arg.attr.length > 255 THEN GetU16(res.bytes, 3)
                             ELSE res.bytes[3]

(***************************************************************************)
(* C32: a received OPEN whose optional-parameter length is not 0 is        *)
(* rejected; an OPEN with optional-parameter length 0 is accepted and      *)
(* decoded to an empty capability list.                                    *)
(***************************************************************************)
C32_OptionalParametersRejected ==
    (res.op = "unpack_open" /\ Len(arg.bytes) >= OPEN_MIN_LEN /\ arg.bytes[19] = OPEN) =>
        IF arg.bytes[29] # 0
        THEN res.raised
        ELSE ~res.raised /\ res.msg.capabilities = << >>

(***************************************************************************)
(* C40: Update.unpack terminates: every turn of the withdrawn-routes loop, *)
(* the path-attribute loop, the NLRI loop and the AS_PATH segment loop     *)
(* takes at least one octet off the octets left, so no loop decodes more   *)
(* items than it was given octets.                                         *)
(***************************************************************************)
C40_UnpackLoopsProgress ==
    /\ (res.op = "unpack_ipfield" /\ ~res.raised) =>
           res.consumed >= 1 /\ res.consumed <= Len(res.packed)
    /\ (res.op = "create" /\ ~res.raised) =>
           /\ Len(res.rest) < Len(arg.bytes)
           /\ res.attr.cls = "ASPath" =>
                  /\ \A i \in 1..Len(res.attr.value) : SegmentLen(res.attr.value[i]) >= 1
                  /\ SegmentsLen(res.attr.value) <= Len(arg.bytes)
                  /\ Len(res.attr.value) <= Len(arg.bytes)
    /\ (res.op = "unpack_update" /\ ~res.raised) =>
           LET wd == GetU16(arg.bytes, HEADER_LEN + 1)
               pa == GetU16(arg.bytes, HEADER_LEN + 3 + wd)
           IN /\ Len(res.msg.wd_routes) <= wd
              /\ Len(res.msg.path_attr) <= pa
              /\ Len(res.msg.wd_routes) + Len(res.msg.path_attr) + Len(res.msg.nlris)
                     <= Len(arg.bytes) - UPDATE_MIN_LEN

\* an UPDATE with a withdrawn route, two path attributes and two NLRI prefixes
\* has been decoded
C40_Witness ==
    /\ res.op = "unpack_update" /\ ~res.raised
    /\ Len(res.msg.wd_routes) >= 1
    /\ Len(res.msg.path_attr) >= 2
    /\ Len(res.msg.nlris) >= 2

(***************************************************************************)
(* C33: the framer conserves octets: the frames taken off the buffer, in   *)
(* the order they were taken, followed by the buffer are the chunks        *)
(* received so far, and a frame taken is the first `length` octets of the  *)
(* buffer at that moment, `length` being the length field of its header.   *)
(***************************************************************************)
C33_ByteConservation ==
    [][/\ Concat(DispatchedMsgs') \o buffer' = Delivered'
       /\ DispatchStep =>
             LET data == Take(wire, Len(wire) - Len(wire'))
                 m == LastDispatched'.msg
             IN /\ m \o buffer' = buffer \o data
                /\ Len(m) = GetU16(buffer \o data, HEADER_LEN - 2)]_vars

\* a frame was taken off the buffer and the header of the next message, whose
\* body has not arrived, is waiting in it
C33_Witness ==
    /\ dispatched # << >>
    /\ LastDispatched.msg # << >>
    /\ Len(buffer) >= HEADER_LEN
    /\ Len(buffer) < GetU16(buffer, HEADER_LEN - 2)
    /\ Concat(DispatchedMsgs) \o buffer = Delivered

(***************************************************************************)
(* C34: hold_timer.reset in handle_open, and hold_timer.cancel and         *)
(* keepalive_timer.stop in handle_notification, are called only on a hold  *)
(* timer that is pending and a keepalive timer that is running.            *)
(***************************************************************************)
C34_TimerOpsOnLiveTimers ==
    [][/\ (DispatchStep /\ LastDispatched'.type = NOTIFICATION) =>
             hold_timer.st = "pending" /\ keepalive_timer.running
       /\ (OpenStep /\ hold_time' # 0) => hold_timer.st = "pending"]_vars

(***************************************************************************)
(* C35: once the session has called transport.loseConnection(), after a    *)
(* NOTIFICATION received or a hold-timer expiry, nothing more is written   *)
(* to that transport: no timer is left to fire and no step sends.          *)
(***************************************************************************)
C35_SilentAfterLoseConnection ==
    [][transport = "disconnecting" =>
          /\ out' = out
          /\ hold_timer.st # "pending"
          /\ ~keepalive_timer.running]_vars

\* a session with its keepalive timer running received a NOTIFICATION, closed
\* the transport, and a second or more has passed since
C35_Witness ==
    /\ transport = "disconnecting"
    /\ dispatched # << >>
    /\ LastDispatched.type = NOTIFICATION
    /\ LastDispatched.state = OPENCONFIRM
    /\ now > LastDispatched.at
    /\ KeepalivesOut # {}

(***************************************************************************)
(* C36: after the transport reported connectionLost no timer of the        *)
(* session is armed and nothing more is written: the periodic KEEPALIVE    *)
(* has stopped and no HoldTimerExpired NOTIFICATION follows.               *)
(***************************************************************************)
C36_QuietAfterConnectionLost ==
    [][transport = "lost" =>
          /\ out' = out
          /\ hold_timer.st # "pending"
          /\ ~keepalive_timer.running]_vars

(***************************************************************************)
(* C37: on a connection exactly one OPEN is written and it is the first    *)
(* message written: no KEEPALIVE or NOTIFICATION goes out before it and    *)
(* no second OPEN after it.                                                *)
(***************************************************************************)
C37_OneOpenFirst ==
    /\ transport = "none" => out = << >>
    /\ transport # "none" =>
          /\ out # << >>
          /\ out[1].type = OPEN
          /\ \A i \in 2..Len(out) : out[i].type # OPEN

\* the OPEN was followed by the KEEPALIVE that answers the peer's OPEN and by a
\* KEEPALIVE of the keepalive timer's second run
C37_Witness ==
    /\ Len(out) >= 4
    /\ out[1].type = OPEN
    /\ \A i \in 2..4 : out[i].type = KEEPALIVE
    /\ out[4].at > out[2].at

(***************************************************************************)
(* C38: the state of a session is always ACTIVE, OPENSENT or OPENCONFIRM   *)
(* and only moves forward: from ACTIVE to OPENSENT when the connection is  *)
(* made, from OPENSENT to OPENCONFIRM when an OPEN is processed.           *)
(***************************************************************************)
C38_StateOnlyAdvances ==
    [][/\ state \in {ACTIVE, OPENSENT, OPENCONFIRM}
       /\ state' \in {ACTIVE, OPENSENT, OPENCONFIRM}
       /\ state' # state =>
             \/ state = ACTIVE /\ state' = OPENSENT /\ ConnectionMadeStep
             \/ state = OPENSENT /\ state' = OPENCONFIRM /\ OpenStep]_vars

\* the hold timer fired in OPENCONFIRM, after an OPEN and another message were
\* processed, and the state stayed
C38_Witness ==
    /\ state = OPENCONFIRM
    /\ hold_fired # << >>
    /\ hold_fired[Len(hold_fired)].state = OPENCONFIRM
    /\ Len(dispatched) >= 2

(***************************************************************************)
(* C39: hold_time never exceeds the configured hold time, changes at most  *)
(* once, when the first OPEN is processed in OPENSENT, and no message or   *)
(* timer event changes it once OPENCONFIRM is entered; the keepalive timer *)
(* is started at most once, and only with a hold time greater than 0.      *)
(***************************************************************************)
C39_HoldTimeSettled ==
    [][/\ hold_time' <= cfg_hold_time
       /\ hold_time' # hold_time =>
             OpenStep /\ OpenSeen = {} /\ hold_time = cfg_hold_time
       /\ state = OPENCONFIRM => hold_time' = hold_time
       /\ (~keepalive_timer.running /\ keepalive_timer'.running) =>
             OpenStep /\ OpenSeen = {} /\ hold_time' > 0
       /\ (keepalive_timer.running /\ keepalive_timer'.running) =>
             keepalive_timer'.interval = keepalive_timer.interval]_vars

\* the OPEN lowered the hold time, the keepalive timer is running, and a
\* message and a second of time have followed
C39_Witness ==
    /\ state = OPENCONFIRM
    /\ hold_time < cfg_hold_time
    /\ hold_time > 0
    /\ keepalive_timer.running
    /\ Len(dispatched) >= 2
    /\ now > TheOpen.at

====
